---- MODULE Spec2Model ----
(***************************************************************************)
(* The CRM de-duplication pipeline: field normalisation                    *)
(* (matching/normalize.py), exact + blocked fuzzy clustering               *)
(* (matching/cluster.py) and survivorship (merge/survivorship.py), driven  *)
(* by the command line (app.py) or the dashboard (streamlit_app.py).       *)
(*                                                                         *)
(* A Python str is a sequence of one-character strings, so that strip,     *)
(* lower, split and the regular expressions act on characters.  A missing  *)
(* cell (pandas NaN) is the value NaN.                                     *)
(***************************************************************************)
EXTENDS Integers, Sequences, FiniteSets, TLC

VARIABLES pc, pipeline, kind, loaded, df, cluster_map, next_cid, remaining,
          blocks, G, clusters, masters, raw, out

vars == <<pc, pipeline, kind, loaded, df, cluster_map, next_cid, remaining,
          blocks, G, clusters, masters, raw, out>>

\* ------------------------------------------------------------------ bounds
\* rows of a dataset handed to the clustering specification
MaxRecords == 3
\* rows of a dataset handed to the survivorship specification
MaxMergeRecords == 3
\* rows of the long datasets (record indices up to 8)
WideRecords == 9
\* pieces a raw field value is concatenated from
MaxPieces == 3

\* ------------------------------------------------------- Python strings
NaN == <<"nan">>
Empty == <<>>

LowerLetters ==
    {"a","b","c","d","e","f","g","h","i","j","k","l","m",
     "n","o","p","q","r","s","t","u","v","w","x","y","z"}
Digits == {"0","1","2","3","4","5","6","7","8","9"}

\* the characters of the model's vocabulary, in code point order
CodePoints ==
    <<" ", "+", "-", ".", "/", "0", "1", "2", "3", "4", "5", "6", "7", "8",
      "9", ":", "@", "A", "C", "L", "W", "a", "b", "c", "d", "e", "f", "g", "h",
      "i", "j", "k", "l", "m", "n", "o", "p", "q", "r", "s", "t", "u", "v",
      "w", "x", "y", "z">>

Code(c) == CHOOSE k \in 1..Len(CodePoints) : CodePoints[k] = c

\* str.__lt__: lexicographic on code points
RECURSIVE StrLess(_, _)
StrLess(a, b) ==
    IF b = <<>> THEN FALSE
    ELSE IF a = <<>> THEN TRUE
    ELSE IF Head(a) = Head(b) THEN StrLess(Tail(a), Tail(b))
    ELSE Code(Head(a)) < Code(Head(b))

LowerChar(c) ==
    CASE c = "A" -> "a"
      [] c = "C" -> "c"
      [] c = "L" -> "l"
      [] c = "W" -> "w"
      [] OTHER -> c

\* str.lower
Lower(s) == [k \in 1..Len(s) |-> LowerChar(s[k])]

IsSpace(c) == c = " "

RECURSIVE LStrip(_)
LStrip(s) ==
    IF s # <<>> /\ IsSpace(Head(s)) THEN LStrip(Tail(s)) ELSE s

RECURSIVE RStrip(_)
RStrip(s) ==
    IF s # <<>> /\ IsSpace(s[Len(s)]) THEN RStrip(SubSeq(s, 1, Len(s) - 1))
    ELSE s

\* str.strip
Strip(s) == RStrip(LStrip(s))

StartsWith(s, p) == Len(s) >= Len(p) /\ SubSeq(s, 1, Len(p)) = p

\* the position of the first c in s, 0 when there is none
FirstPos(s, c) ==
    IF \E k \in 1..Len(s) : s[k] = c
    THEN CHOOSE k \in 1..Len(s) : s[k] = c /\ \A m \in 1..(k - 1) : s[m] # c
    ELSE 0

\* s.split(c)[0], which is also s.split(c, 1)[0]
BeforeFirst(s, c) ==
    IF FirstPos(s, c) = 0 THEN s ELSE SubSeq(s, 1, FirstPos(s, c) - 1)

\* s.split(c, 1)[1], for an s that holds c
AfterFirst(s, c) == SubSeq(s, FirstPos(s, c) + 1, Len(s))

\* s[:n]
Prefix(s, n) == SubSeq(s, 1, IF Len(s) < n THEN Len(s) ELSE n)

\* ------------------------------------------------- matching/normalize.py
_norm_str(x) == IF x = NaN THEN Empty ELSE Strip(x)

_norm_lower(x) == Lower(_norm_str(x))

\* _ALNUM.sub("", s): every run of characters outside [a-z0-9] is removed
AlnumSub(s) == SelectSeq(s, LAMBDA c : c \in LowerLetters \cup Digits)

_alnum(s) == AlnumSub(_norm_lower(s))

SchemeHttp == <<"h","t","t","p",":","/","/">>
SchemeHttps == <<"h","t","t","p","s",":","/","/">>
WwwDot == <<"w","w","w",".">>

\* re.sub(r"^https?://", "", s)
DropScheme(s) ==
    IF StartsWith(s, SchemeHttps) THEN SubSeq(s, Len(SchemeHttps) + 1, Len(s))
    ELSE IF StartsWith(s, SchemeHttp) THEN SubSeq(s, Len(SchemeHttp) + 1, Len(s))
    ELSE s

\* re.sub(r"^www\.", "", s)
DropWww(s) ==
    IF StartsWith(s, WwwDot) THEN SubSeq(s, Len(WwwDot) + 1, Len(s)) ELSE s

_domain_only(url) ==
    LET s == _norm_lower(url)
    IN  IF s = Empty THEN Empty
        ELSE DropWww(BeforeFirst(DropScheme(s), "/"))

GmailCom == <<"g","m","a","i","l",".","c","o","m">>
GooglemailCom == <<"g","o","o","g","l","e","m","a","i","l",".","c","o","m">>

_normalize_email(email) ==
    LET e == _norm_lower(email)
    IN  IF e = Empty \/ FirstPos(e, "@") = 0 THEN e
        ELSE LET local == BeforeFirst(e, "@")
                 domain == AfterFirst(e, "@")
                 kept == IF domain \in {GmailCom, GooglemailCom}
                         THEN BeforeFirst(local, "+") ELSE local
             IN  kept \o <<"@">> \o domain

\* phonenumbers.parse / is_possible_number / format_number(E164) with region
\* "US" belong to the phonenumbers library: a value made of digits only
\* stands for a number the library accepts, any other for one it rejects.
_normalize_phone(phone) ==
    IF _norm_str(phone) = Empty THEN Empty
    ELSE IF \A k \in 1..Len(phone) : phone[k] \in Digits
         THEN <<"+", "1">> \o phone
         ELSE Empty

\* ---------------------------------------- normalising a raw field value
\* the pieces raw field values are concatenated from
Pieces ==
    { <<" ">>, <<"a">>, <<"A">>, <<"-">>, <<"1">>, <<"+">>, <<"@">>, <<"/">>,
      <<"x",".","c","o">>, GmailCom, WwwDot, SchemeHttp }

RECURSIVE Concat(_)
Concat(ps) == IF ps = <<>> THEN <<>> ELSE Head(ps) \o Concat(Tail(ps))

RawValues ==
    {NaN} \cup { Concat(ps) : ps \in UNION { [1..n -> Pieces] : n \in 0..MaxPieces } }

Idle ==
    /\ pipeline = "none" /\ kind = "none" /\ loaded = <<>> /\ df = <<>>
    /\ cluster_map = <<>> /\ next_cid = 0 /\ remaining = <<>>
    /\ blocks = <<>> /\ G = [nodes |-> <<>>, edges |-> {}]
    /\ clusters = <<>> /\ masters = <<>>

InitNorm ==
    /\ pc = "raw"
    /\ raw \in RawValues
    /\ out = [fn |-> "none", once |-> Empty, twice |-> Empty]
    /\ Idle

Normalized(fn, once, twice) ==
    /\ pc = "raw"
    /\ pc' = "normed"
    /\ out' = [fn |-> fn, once |-> once, twice |-> twice]
    /\ UNCHANGED <<pipeline, kind, loaded, df, cluster_map, next_cid, remaining,
                   blocks, G, clusters, masters, raw>>

\* the name trimmer, on a raw value and on its own result
NormStrStep == Normalized("_norm_str", _norm_str(raw), _norm_str(_norm_str(raw)))

\* the blocking-key projection
AlnumStep == Normalized("_alnum", _alnum(raw), _alnum(_alnum(raw)))

\* the website-domain normalizer
DomainStep ==
    Normalized("_domain_only", _domain_only(raw), _domain_only(_domain_only(raw)))

\* the email normalizer
EmailStep ==
    Normalized("_normalize_email", _normalize_email(raw),
               _normalize_email(_normalize_email(raw)))

NextNorm == NormStrStep \/ AlnumStep \/ DomainStep \/ EmailStep

SpecNorm == InitNorm /\ [][NextNorm]_vars

\* C5: each field normalizer is idempotent: normalising an already
\* normalised value (email, website domain, trimmed name, alphanumeric
\* blocking key) returns it unchanged.
NormalizersIdempotent == pc = "normed" => out.twice = out.once

\* the three normalizers other than the domain one, for comparison
OthersIdempotent ==
    (pc = "normed" /\ out.fn # "_domain_only") => out.twice = out.once

\* ------------------------------------------------------ Python containers
\* A dict is the sequence of its <<key, value>> items in insertion order.
DictHas(d, k) == \E n \in 1..Len(d) : d[n][1] = k

DictGet(d, k) == d[CHOOSE n \in 1..Len(d) : d[n][1] = k][2]

\* d[k] = v: a new key is appended, a known key keeps its place
DictSet(d, k, v) ==
    IF DictHas(d, k)
    THEN [n \in 1..Len(d) |-> IF d[n][1] = k THEN <<k, v>> ELSE d[n]]
    ELSE Append(d, <<k, v>>)

SetOf(q) == {q[n] : n \in 1..Len(q)}

Min(S) == CHOOSE x \in S : \A y \in S : x <= y

RECURSIVE Ascending(_)
Ascending(S) ==
    IF S = {} THEN <<>> ELSE <<Min(S)>> \o Ascending(S \ {Min(S)})

\* A set of small non-negative ints is the sequence of its elements in
\* insertion order.  CPython keeps up to 4 elements in a table of 8 slots:
\* element h goes to slot h & 7 and, while that slot is taken, to slot
\* (5 * i + 1 + perturb) & 7, perturb being h >> 5 and then 0.  The 5th
\* element makes the table grow to 32 slots, where every index below 32
\* has its own slot.  Iteration runs through the slots in order.
RECURSIVE Probe(_, _, _)
Probe(slots, i, perturb) ==
    IF slots[i] = -1 THEN i
    ELSE Probe(slots, (5 * i + 1 + (perturb \div 32)) % 8, perturb \div 32)

RECURSIVE Fill(_, _)
Fill(slots, ins) ==
    IF ins = <<>> THEN slots
    ELSE Fill([slots EXCEPT ![Probe(slots, Head(ins) % 8, Head(ins))] = Head(ins)],
              Tail(ins))

\* list(s), and the order of "for x in s"
PyList(ins) ==
    IF Len(ins) >= 5 THEN Ascending(SetOf(ins))
    ELSE LET slots == Fill([i \in 0..7 |-> -1], ins)
             at(n) == slots[n - 1]
         IN  SelectSeq([n \in 1..8 |-> at(n)], LAMBDA x : x # -1)

\* ------------------------------------------------------------ vocabulary
S_ann == <<"a","n","n">>
S_Ann == <<"A","n","n">>
S_amy == <<"a","m","y">>
S_a_l == <<"a","-","l">>
S_lee == <<"l","e","e">>
S_leo == <<"l","e","o">>
S_lea == <<"l","e","a">>
S_moe == <<"m","o","e">>
S_acme == <<"a","c","m","e">>
S_Acme == <<"A","c","m","e">>
S_acne == <<"a","c","n","e">>
S_acmy == <<"a","c","m","y">>
S_apme == <<"a","p","m","e">>
S_a_c == <<"a","-","c">>
S_ac_me == <<"a","c","-","m","e">>
S_b_at_x == <<"b","@","x">>
S_a_at_x == <<"a","@","x">>
S_A_at_x == <<"A","@","x">>
S_b_co == <<"b",".","c","o">>
S_www_b_co == WwwDot \o S_b_co
S_a_co == <<"a",".","c","o">>
S_555 == <<"5","5","5">>
S_556 == <<"5","5","6">>
S_oops == <<"o","o","p","s">>
S_corp == <<"c","o","r","p">>

\* fuzz.token_sort_ratio belongs to the rapidfuzz library: its result on a
\* pair of the vocabulary's (lowered, single-token) names is an input of the
\* model.  Equal strings score 100; the table gives the other pairs scores
\* on both sides of both thresholds.
token_sort_ratio(a, b) ==
    IF a = b THEN 100
    ELSE LET p == {a, b}
         IN  CASE p = {S_lee, S_leo} -> 76
               [] p = {S_leo, S_lea} -> 76
               [] p = {S_lee, S_lea} -> 75
               [] p = {S_ann, S_amy} -> 74
               [] p = {S_lee, S_moe} -> 90
               [] p = {S_leo, S_moe} -> 90
               [] p = {S_ann, S_a_l} -> 90
               [] p = {S_acme, S_acne} -> 90
               [] p = {S_acne, S_acmy} -> 90
               [] p = {S_acme, S_acmy} -> 89
               [] p = {S_acme, S_apme} -> 95
               [] p = {S_acne, S_apme} -> 95
               [] p = {S_acme, S_ac_me} -> 89
               [] p = {S_acme, S_a_c} -> 95
               [] OTHER -> 50

\* ------------------------------------------------------------- the loader
\* load_table (app.py) tags the rows "Lead", "Contact", "Account";
\* load_uploaded_csv (streamlit_app.py) tags them "lead", "contact", "account".
S_lead == <<"l","e","a","d">>
S_contact == <<"c","o","n","t","a","c","t">>
S_account == <<"a","c","c","o","u","n","t">>

SourceTag(p, what) ==
    IF p = "cli"
    THEN CASE what = "lead" -> <<"L","e","a","d">>
           [] what = "contact" -> <<"C","o","n","t","a","c","t">>
           [] OTHER -> <<"A","c","c","o","u","n","t">>
    ELSE CASE what = "lead" -> S_lead
           [] what = "contact" -> S_contact
           [] OTHER -> S_account

\* a row of a leads or contacts file: a blank CSV cell is NaN
PersonRow(fn, ln, em, ph, co) ==
    [first_name |-> fn, last_name |-> ln, email |-> em, phone |-> ph,
     company |-> co]

\* a row of an accounts file
AccountRow(nm, web) == [account_name |-> nm, website |-> web]

Tagged(rows, tag) ==
    [n \in 1..Len(rows) |->
        [c \in DOMAIN rows[n] \cup {"source_type"} |->
            IF c = "source_type" THEN tag ELSE rows[n][c]]]

SeqsUpTo(S, lo, hi) == UNION { [1..n -> S] : n \in lo..hi }

\* the rows of the clustering datasets
PeopleVocab ==
    { PersonRow(S_ann, S_lee, NaN, NaN, NaN),
      PersonRow(S_Ann, S_leo, NaN, NaN, NaN),
      PersonRow(S_ann, S_lea, NaN, NaN, NaN),
      PersonRow(S_amy, S_lee, NaN, NaN, NaN),
      PersonRow(S_ann, S_moe, NaN, NaN, NaN),
      PersonRow(S_a_l, S_lee, NaN, NaN, NaN),
      PersonRow(NaN, NaN, NaN, NaN, NaN),
      PersonRow(S_ann, S_lee, S_b_at_x, NaN, NaN),
      PersonRow(S_ann, S_moe, S_b_at_x, NaN, NaN),
      PersonRow(S_Ann, S_leo, S_A_at_x, NaN, NaN),
      PersonRow(S_a_l, S_lee, S_a_at_x, NaN, NaN) }

AccountVocab ==
    { AccountRow(S_acme, NaN),
      AccountRow(S_Acme, NaN),
      AccountRow(S_acne, NaN),
      AccountRow(S_acmy, NaN),
      AccountRow(S_apme, NaN),
      AccountRow(S_a_c, NaN),
      AccountRow(NaN, NaN),
      AccountRow(S_acme, S_b_co),
      AccountRow(S_ac_me, S_www_b_co),
      AccountRow(NaN, S_a_co),
      AccountRow(S_a_c, S_a_co) }

NoTables == [leads |-> <<>>, contacts |-> <<>>, accounts |-> <<>>]

\* the state once the loader has read the files of one entity type
Loaded(p, k, tables) ==
    /\ pc = "loaded"
    /\ pipeline = p
    /\ kind = k
    /\ loaded = tables
    /\ df = <<>> /\ cluster_map = <<>> /\ next_cid = 0 /\ remaining = <<>>
    /\ blocks = <<>> /\ G = [nodes |-> <<>>, edges |-> {}]
    /\ clusters = <<>> /\ masters = <<>>
    /\ raw = Empty /\ out = [fn |-> "none", once |-> Empty, twice |-> Empty]

Init ==
    \/ \E rows \in SeqsUpTo(PeopleVocab, 1, MaxRecords) :
          Loaded("dashboard", "people",
                 [NoTables EXCEPT !.leads = Tagged(rows, SourceTag("dashboard", "lead"))])
    \/ \E rows \in SeqsUpTo(AccountVocab, 1, MaxRecords) :
          Loaded("dashboard", "accounts",
                 [NoTables EXCEPT !.accounts = Tagged(rows, SourceTag("dashboard", "account"))])

\* --------------------------------- matching/normalize.py: the data frames
\* A data frame is the sequence of its rows; the row with index i is the
\* (i + 1)-th, the index being 0..n-1 after reset_index.
Index(frame) == [n \in 1..Len(frame) |-> n - 1]

Row(frame, i) == frame[i + 1]

With(row, col, v) ==
    [c \in DOMAIN row \cup {col} |-> IF c = col THEN v ELSE row[c]]

NormalizePerson(row) ==
    LET fn == _norm_str(row.first_name)
        ln == _norm_str(row.last_name)
    IN  [first_name |-> fn,
         last_name |-> ln,
         email |-> _normalize_email(row.email),
         phone |-> _normalize_phone(row.phone),
         company |-> row.company,
         source_type |-> row.source_type,
         first_name_alnum |-> _alnum(fn),
         last_name_alnum |-> _alnum(ln)]

normalize_people_df(leads_df, contacts_df) ==
    LET frame == leads_df \o contacts_df
    IN  [n \in 1..Len(frame) |-> NormalizePerson(frame[n])]

NormalizeAccount(row) ==
    LET nm == _norm_str(row.account_name)
    IN  [account_name |-> nm,
         website |-> row.website,
         source_type |-> row.source_type,
         account_name_alnum |-> _alnum(nm),
         website_domain |-> _domain_only(row.website)]

\* rows with neither a name nor a domain are dropped
normalize_accounts_df(accounts_df) ==
    SelectSeq([n \in 1..Len(accounts_df) |-> NormalizeAccount(accounts_df[n])],
              LAMBDA r : Len(r.account_name) > 0 \/ Len(r.website_domain) > 0)

Untouched ==
    UNCHANGED <<pipeline, kind, loaded, raw, out>>

NormalizePeople ==
    /\ pc = "loaded" /\ kind = "people"
    /\ df' = normalize_people_df(loaded.leads, loaded.contacts)
    /\ pc' = "normalized"
    /\ UNCHANGED <<cluster_map, next_cid, remaining, blocks, G, clusters, masters>>
    /\ Untouched

NormalizeAccounts ==
    /\ pc = "loaded" /\ kind = "accounts"
    /\ df' = normalize_accounts_df(loaded.accounts)
    /\ pc' = "normalized"
    /\ UNCHANGED <<cluster_map, next_cid, remaining, blocks, G, clusters, masters>>
    /\ Untouched

\* ---------------------------------------------------- matching/cluster.py
PeopleThreshold == 88
AccountThreshold == 90
MinAlnum == 3

\* cluster.py's own _alnum: _ALNUM.sub("", str(s).strip().lower())
cluster_alnum(s) == AlnumSub(Lower(Strip(s)))

StrMin(S) == CHOOSE x \in S : \A y \in S \ {x} : StrLess(x, y)

\* the group keys of a groupby, which sorts them
RECURSIVE SortedKeys(_)
SortedKeys(S) ==
    IF S = {} THEN <<>> ELSE <<StrMin(S)>> \o SortedKeys(S \ {StrMin(S)})

\* groupby(col.where(col != "", None), dropna=True): the non-empty values
ExactKeys(frame, col) ==
    SortedKeys({frame[n][col] : n \in 1..Len(frame)} \ {Empty})

\* mutant: next_cid += 1 inside the loop over the group's rows
GroupItemsCounting(frame, col, key, cid) ==
    LET idxs == SelectSeq(Index(frame), LAMBDA i : Row(frame, i)[col] = key)
    IN  [n \in 1..Len(idxs) |-> <<idxs[n], cid + n - 1>>]

\* for idx in grp.index: cluster_map[idx] = next_cid
GroupItems(frame, col, key, cid) ==
    LET idxs == SelectSeq(Index(frame), LAMBDA i : Row(frame, i)[col] = key)
    IN  [n \in 1..Len(idxs) |-> <<idxs[n], cid>>]

\* the exact phase: one cluster id per key, in the groupby's order
RECURSIVE ExactItems(_, _, _, _)
ExactItems(frame, col, keys, cid) ==
    IF keys = <<>> THEN <<>>
    ELSE GroupItems(frame, col, Head(keys), cid)
         \o ExactItems(frame, col, Tail(keys), cid + 1)

\* mutant: a record that is alone with its key is left for the fuzzy phase
RemainingWithLoneKeys(frame, cm) ==
    SelectSeq(Index(frame),
              LAMBDA i : \/ ~DictHas(cm, i)
                         \/ \A n \in 1..Len(cm) : cm[n][1] # i => cm[n][2] # DictGet(cm, i))

\* mutant: the loop starts at df.index[1:]
RemainingAfterFirst(frame, cm) ==
    SelectSeq(Tail(Index(frame)), LAMBDA i : ~DictHas(cm, i))

\* remaining = [i for i in df.index if i not in cluster_map]
Remaining(frame, cm) == SelectSeq(Index(frame), LAMBDA i : ~DictHas(cm, i))

\* mutant: the block key is the first-name initial alone
PeopleBlockKeyFirstName(row) == Prefix(row.first_name_alnum, 1)

\* key = f"{ln}{fn}": the initials of the alphanumeric last and first names
PeopleBlockKey(row) == Prefix(row.last_name_alnum, 1) \o Prefix(row.first_name_alnum, 1)

\* key = account_name_alnum[:2]
AccountBlockKey(row) == Prefix(row.account_name_alnum, 2)

\* blocks.setdefault(key, []).append(i)
BlockAppend(bl, key, i) ==
    IF \E n \in 1..Len(bl) : bl[n].key = key
    THEN [n \in 1..Len(bl) |->
            IF bl[n].key = key THEN [bl[n] EXCEPT !.idxs = Append(@, i)] ELSE bl[n]]
    ELSE Append(bl, [key |-> key, idxs |-> <<i>>])

RECURSIVE BuildBlocks(_, _, _)
BuildBlocks(bl, rem, keys) ==
    IF rem = <<>> THEN bl
    ELSE BuildBlocks(BlockAppend(bl, Head(keys), Head(rem)), Tail(rem), Tail(keys))

\* mutant: the guard measures the names, not their alphanumeric characters
PeopleShortRaw(row) ==
    \/ Len(row.first_name) < MinAlnum
    \/ Len(row.last_name) < MinAlnum

\* len(_alnum(f)) < 3 or len(_alnum(l)) < 3: too short to score
PeopleShort(row) ==
    \/ Len(cluster_alnum(row.first_name)) < MinAlnum
    \/ Len(cluster_alnum(row.last_name)) < MinAlnum

\* len(a) < 3, a being the account_name_alnum column
AccountShort(row) == Len(row.account_name_alnum) < MinAlnum

\* mutant: a strict comparison
PeopleJudgedStrict(r1, r2) ==
    LET s_fn == token_sort_ratio(Lower(r1.first_name), Lower(r2.first_name))
        s_ln == token_sort_ratio(Lower(r1.last_name), Lower(r2.last_name))
    IN  s_fn + s_ln > 2 * PeopleThreshold

\* (s_fn + s_ln) / 2 >= 88, a true division
PeopleJudged(r1, r2) ==
    LET s_fn == token_sort_ratio(Lower(r1.first_name), Lower(r2.first_name))
        s_ln == token_sort_ratio(Lower(r1.last_name), Lower(r2.last_name))
    IN  s_fn + s_ln >= 2 * PeopleThreshold

\* score >= 90
AccountJudged(r1, r2) ==
    token_sort_ratio(Lower(Strip(r1.account_name)), Lower(Strip(r2.account_name)))
        >= AccountThreshold

\* the nodes of G, block after block
GraphNodes(bl) == Concat([n \in 1..Len(bl) |-> bl[n].idxs])

\* the edges of G: the pairs (idxs[a], idxs[c]), a < c, of one block that
\* pass both length guards and are judged a match
BlockPairs(frame, bl) ==
    { t \in (1..Len(bl)) \X (1..Len(frame)) \X (1..Len(frame)) :
        t[2] < t[3] /\ t[3] <= Len(bl[t[1]].idxs) }

PeopleEdges(frame, bl) ==
    { {bl[t[1]].idxs[t[2]], bl[t[1]].idxs[t[3]]} :
        t \in { u \in BlockPairs(frame, bl) :
                  /\ ~PeopleShort(Row(frame, bl[u[1]].idxs[u[2]]))
                  /\ ~PeopleShort(Row(frame, bl[u[1]].idxs[u[3]]))
                  /\ PeopleJudged(Row(frame, bl[u[1]].idxs[u[2]]),
                                  Row(frame, bl[u[1]].idxs[u[3]])) } }

AccountEdges(frame, bl) ==
    { {bl[t[1]].idxs[t[2]], bl[t[1]].idxs[t[3]]} :
        t \in { u \in BlockPairs(frame, bl) :
                  /\ ~AccountShort(Row(frame, bl[u[1]].idxs[u[2]]))
                  /\ ~AccountShort(Row(frame, bl[u[1]].idxs[u[3]]))
                  /\ AccountJudged(Row(frame, bl[u[1]].idxs[u[2]]),
                                   Row(frame, bl[u[1]].idxs[u[3]])) } }

\* mutant: a component is a node and its neighbours
GrowOnce(edges, S) == S \cup UNION { e \in edges : e \cap S # {} }

RECURSIVE Grow(_, _)
Grow(edges, S) ==
    LET T == S \cup UNION { e \in edges : e \cap S # {} }
    IN  IF T = S THEN S ELSE Grow(edges, T)

\* nx.connected_components(G): for each node of G not seen yet, in node
\* order, the set of the nodes reached from it.  The set is built by a
\* traversal that starts at that node; the order in which the traversal adds
\* the others matters only to the slots of elements that collide.
RECURSIVE connected_components(_, _, _)
connected_components(nodes, edges, seen) ==
    IF nodes = <<>> THEN <<>>
    ELSE IF Head(nodes) \in seen THEN connected_components(Tail(nodes), edges, seen)
    ELSE LET comp == Grow(edges, {Head(nodes)})
         IN  <<(<<Head(nodes)>> \o Ascending(comp \ {Head(nodes)}))>>
             \o connected_components(Tail(nodes), edges, seen \cup comp)

RECURSIVE SetAll(_, _, _)
SetAll(cm, nodes, cid) ==
    IF nodes = <<>> THEN cm
    ELSE SetAll(DictSet(cm, Head(nodes), cid), Tail(nodes), cid)

\* for comp in components: for node in comp: cluster_map[node] = cid
RECURSIVE AssignComponents(_, _, _)
AssignComponents(cm, comps, cid) ==
    IF comps = <<>> THEN cm
    ELSE AssignComponents(SetAll(cm, PyList(Head(comps)), cid), Tail(comps), cid + 1)

\* for i in remaining: if i not in cluster_map: a cluster id of its own
RECURSIVE Singletons(_, _, _)
Singletons(cm, rem, cid) ==
    IF rem = <<>> THEN [map |-> cm, next |-> cid]
    ELSE IF DictHas(cm, Head(rem)) THEN Singletons(cm, Tail(rem), cid)
    ELSE Singletons(DictSet(cm, Head(rem), cid), Tail(rem), cid + 1)

\* {i for i, c in cluster_map.items() if c == cid}
ClusterSet(cm, cid) ==
    LET items == SelectSeq(cm, LAMBDA it : it[2] = cid)
    IN  [n \in 1..Len(items) |-> items[n][1]]

\* for cid in sorted(set(cluster_map.values())): clusters.append(...)
ClusterList(cm) ==
    LET cids == Ascending({cm[n][2] : n \in 1..Len(cm)})
    IN  [n \in 1..Len(cids) |-> ClusterSet(cm, cids[n])]

\* df["cluster_id"] = df.index.map(cluster_map.get)
\* (a record the dict does not hold gets no id, written -1)
WithClusterId(frame, cm) ==
    [n \in 1..Len(frame) |->
        With(frame[n], "cluster_id",
             IF DictHas(cm, n - 1) THEN DictGet(cm, n - 1) ELSE -1)]

\* --------------------------------------------------------- cluster_people
\* 1) exact by email, then the records left for the fuzzy phase
people_exact ==
    /\ pc = "normalized" /\ kind = "people" /\ Len(df) > 0
    /\ LET keys == ExactKeys(df, "email")
           cm == ExactItems(df, "email", keys, 0)
       IN  /\ cluster_map' = cm
           /\ next_cid' = Len(keys)
           /\ remaining' = Remaining(df, cm)
    /\ pc' = "exact"
    /\ UNCHANGED <<df, blocks, G, clusters, masters>>
    /\ Untouched

\* block by last-name initial + first-name initial
people_blocks ==
    /\ pc = "exact" /\ kind = "people"
    /\ blocks' = BuildBlocks(<<>>, remaining,
                    [n \in 1..Len(remaining) |-> PeopleBlockKey(Row(df, remaining[n]))])
    /\ pc' = "blocked"
    /\ UNCHANGED <<df, cluster_map, next_cid, remaining, G, clusters, masters>>
    /\ Untouched

\* 2) fuzzy by name within the blocks
people_fuzzy ==
    /\ pc = "blocked" /\ kind = "people"
    /\ G' = [nodes |-> GraphNodes(blocks),
             edges |-> PeopleEdges(df, blocks)]
    /\ pc' = "fuzzy"
    /\ UNCHANGED <<df, cluster_map, next_cid, remaining, blocks, clusters, masters>>
    /\ Untouched

\* one cluster id per connected component of G
people_components ==
    /\ pc = "fuzzy" /\ kind = "people"
    /\ LET comps == connected_components(G.nodes, G.edges, {})
       IN  /\ cluster_map' = AssignComponents(cluster_map, comps, next_cid)
           /\ next_cid' = next_cid + Len(comps)
    /\ pc' = "components"
    /\ UNCHANGED <<df, remaining, blocks, G, clusters, masters>>
    /\ Untouched

\* the singletons loop
people_singletons ==
    /\ pc = "components" /\ kind = "people"
    /\ LET r == Singletons(cluster_map, remaining, next_cid)
       IN  /\ cluster_map' = r.map
           /\ next_cid' = r.next
    /\ pc' = "singletons"
    /\ UNCHANGED <<df, remaining, blocks, G, clusters, masters>>
    /\ Untouched

\* the cluster_id column and the list of cluster sets: return clusters, df
people_return ==
    /\ pc = "singletons" /\ kind = "people"
    /\ clusters' = <<ClusterList(cluster_map), WithClusterId(df, cluster_map)>>
    /\ pc' = "clustered"
    /\ UNCHANGED <<df, cluster_map, next_cid, remaining, blocks, G, masters>>
    /\ Untouched

\* ------------------------------------------------------- cluster_accounts
\* 1) exact by website domain, then the records left for the fuzzy phase
accounts_exact ==
    /\ pc = "normalized" /\ kind = "accounts" /\ Len(df) > 0
    /\ LET keys == ExactKeys(df, "website_domain")
           cm == ExactItems(df, "website_domain", keys, 0)
       IN  /\ cluster_map' = cm
           /\ next_cid' = Len(keys)
           /\ remaining' = Remaining(df, cm)
    /\ pc' = "exact"
    /\ UNCHANGED <<df, blocks, G, clusters, masters>>
    /\ Untouched

\* block by the first two alphanumeric characters of the account name
accounts_blocks ==
    /\ pc = "exact" /\ kind = "accounts"
    /\ blocks' = BuildBlocks(<<>>, remaining,
                    [n \in 1..Len(remaining) |-> AccountBlockKey(Row(df, remaining[n]))])
    /\ pc' = "blocked"
    /\ UNCHANGED <<df, cluster_map, next_cid, remaining, G, clusters, masters>>
    /\ Untouched

\* 2) fuzzy by account name within the blocks
accounts_fuzzy ==
    /\ pc = "blocked" /\ kind = "accounts"
    /\ G' = [nodes |-> GraphNodes(blocks),
             edges |-> AccountEdges(df, blocks)]
    /\ pc' = "fuzzy"
    /\ UNCHANGED <<df, cluster_map, next_cid, remaining, blocks, clusters, masters>>
    /\ Untouched

accounts_components ==
    /\ pc = "fuzzy" /\ kind = "accounts"
    /\ LET comps == connected_components(G.nodes, G.edges, {})
       IN  /\ cluster_map' = AssignComponents(cluster_map, comps, next_cid)
           /\ next_cid' = next_cid + Len(comps)
    /\ pc' = "components"
    /\ UNCHANGED <<df, remaining, blocks, G, clusters, masters>>
    /\ Untouched

accounts_singletons ==
    /\ pc = "components" /\ kind = "accounts"
    /\ LET r == Singletons(cluster_map, remaining, next_cid)
       IN  /\ cluster_map' = r.map
           /\ next_cid' = r.next
    /\ pc' = "singletons"
    /\ UNCHANGED <<df, remaining, blocks, G, clusters, masters>>
    /\ Untouched

accounts_return ==
    /\ pc = "singletons" /\ kind = "accounts"
    /\ clusters' = <<ClusterList(cluster_map), WithClusterId(df, cluster_map)>>
    /\ pc' = "clustered"
    /\ UNCHANGED <<df, cluster_map, next_cid, remaining, blocks, G, masters>>
    /\ Untouched

NextCluster ==
    \/ NormalizePeople \/ NormalizeAccounts
    \/ people_exact \/ people_blocks \/ people_fuzzy
    \/ people_components \/ people_singletons \/ people_return
    \/ accounts_exact \/ accounts_blocks \/ accounts_fuzzy
    \/ accounts_components \/ accounts_singletons \/ accounts_return

Spec == Init /\ [][NextCluster]_vars

\* ------------------------------------------------ the clustering claims
Clustered == pc = "clustered"

IndexSet == 0..(Len(df) - 1)

\* the clusters returned, as sets of record indices
Members(n) == SetOf(clusters[1][n])

ExactKeyOf(i) ==
    IF kind = "people" THEN Row(df, i).email ELSE Row(df, i).website_domain

SameCluster(i, j) == \E n \in 1..Len(clusters[1]) : {i, j} \subseteq Members(n)

\* the alphanumeric characters of a name, as the claims count them
AlnumLen(name) == Len(SelectSeq(Lower(name), LAMBDA c : c \in LowerLetters \cup Digits))

ShortRecord(i) ==
    IF kind = "people"
    THEN AlnumLen(Row(df, i).first_name) <= 2 \/ AlnumLen(Row(df, i).last_name) <= 2
    ELSE AlnumLen(Row(df, i).account_name) < 3

BlockKeyOf(i) ==
    IF kind = "people"
    THEN Prefix(AlnumSub(Lower(Row(df, i).last_name)), 1)
         \o Prefix(AlnumSub(Lower(Row(df, i).first_name)), 1)
    ELSE Prefix(AlnumSub(Lower(Row(df, i).account_name)), 2)

\* twice the average name similarity of two people records
TwiceAverage(i, j) ==
    token_sort_ratio(Lower(Row(df, i).first_name), Lower(Row(df, j).first_name))
    + token_sort_ratio(Lower(Row(df, i).last_name), Lower(Row(df, j).last_name))

AccountScore(i, j) ==
    token_sort_ratio(Lower(Row(df, i).account_name), Lower(Row(df, j).account_name))

\* matched by neither phase: no other record has its non-empty exact key
\* and no fuzzy edge ends at it
Unmatched(i) ==
    /\ \A j \in IndexSet \ {i} : ExactKeyOf(i) = Empty \/ ExactKeyOf(j) # ExactKeyOf(i)
    /\ \A e \in G.edges : i \notin e

\* C1: the clusters returned by cluster_people / cluster_accounts partition
\* the record indices: every index is in exactly one cluster, no cluster is
\* empty, and a record matched by neither phase is alone in its cluster.
ClustersPartition ==
    Clustered =>
        /\ \A i \in IndexSet :
              Cardinality({n \in 1..Len(clusters[1]) : i \in Members(n)}) = 1
        /\ \A n \in 1..Len(clusters[1]) :
              /\ Members(n) # {}
              /\ Members(n) \subseteq IndexSet
              /\ Cardinality(Members(n)) = Len(clusters[1][n])
        /\ \A i \in IndexSet :
              Unmatched(i) => \E n \in 1..Len(clusters[1]) : Members(n) = {i}

PartitionWitness ==
    /\ Clustered
    /\ Len(df) = 3
    /\ \E i \in IndexSet : Unmatched(i) /\ ExactKeyOf(i) = Empty
    /\ \E n \in 1..Len(clusters[1]) : Cardinality(Members(n)) = 2

\* C2: two records with the same non-empty exact key (email, website
\* domain) are in the same cluster whatever their names and blocks, and
\* neither takes part in the fuzzy comparison.
ExactKeyMerges ==
    Clustered =>
        \A i, j \in IndexSet :
            (ExactKeyOf(i) # Empty /\ ExactKeyOf(i) = ExactKeyOf(j)) =>
                /\ SameCluster(i, j)
                /\ i \notin SetOf(G.nodes)
                /\ j \notin SetOf(G.nodes)

ExactKeyWitness ==
    /\ Clustered
    /\ \E i, j, k \in IndexSet :
          /\ i < j /\ j < k
          /\ ExactKeyOf(i) # Empty
          /\ ExactKeyOf(i) = ExactKeyOf(j) /\ ExactKeyOf(j) = ExactKeyOf(k)
          /\ BlockKeyOf(i) # BlockKeyOf(j)
          /\ SameCluster(i, k) /\ SameCluster(i, j)

FuzzyDone == pc \in {"fuzzy", "components", "singletons", "clustered"}

Comparable(i, j) ==
    /\ i \in SetOf(remaining) /\ j \in SetOf(remaining)
    /\ i # j
    /\ BlockKeyOf(i) = BlockKeyOf(j)
    /\ ~ShortRecord(i) /\ ~ShortRecord(j)

\* C3: two records of one block, both left by the exact phase and with
\* names of at least 3 alphanumeric characters, are linked by a fuzzy edge
\* exactly when the average of the first-name and last-name scores is >= 88
\* (people) or the account-name score is >= 90 (accounts).
ThresholdDecides ==
    FuzzyDone =>
        \A i, j \in IndexSet :
            Comparable(i, j) =>
                (({i, j} \in G.edges) <=>
                    IF kind = "people" THEN TwiceAverage(i, j) >= 176
                    ELSE AccountScore(i, j) >= 90)

ThresholdWitness ==
    /\ FuzzyDone /\ kind = "people"
    /\ \E i, j, k \in IndexSet :
          /\ Comparable(i, j) /\ TwiceAverage(i, j) = 176 /\ {i, j} \in G.edges
          /\ Comparable(i, k) /\ TwiceAverage(i, k) = 175 /\ {i, k} \notin G.edges

\* C4: a record with a name of fewer than 3 alphanumeric characters is the
\* endpoint of no fuzzy edge, and shares a cluster only with records that
\* have its non-empty exact key.
ShortNeverFuzzy ==
    Clustered =>
        \A i \in IndexSet :
            ShortRecord(i) =>
                /\ \A e \in G.edges : i \notin e
                /\ \A j \in IndexSet \ {i} :
                      SameCluster(i, j) =>
                          (ExactKeyOf(i) # Empty /\ ExactKeyOf(i) = ExactKeyOf(j))

ShortWitness ==
    /\ Clustered
    /\ \E i, j \in IndexSet :
          /\ i # j
          /\ ShortRecord(i) /\ ShortRecord(j)
          /\ Row(df, i).first_name = Row(df, j).first_name
          /\ Len(Row(df, i).first_name) >= 3
          /\ Row(df, i).last_name = Row(df, j).last_name
          /\ ExactKeyOf(i) = Empty /\ ExactKeyOf(j) = Empty
          /\ ~SameCluster(i, j)

\* ------------------------------------------------- merge/survivorship.py
\* A Python object handed over as a cluster: a set of record indices (its
\* elements in insertion order), a list, or a data frame.
PySet(ins) == [type |-> "set", items |-> ins]

PyObject(type, items) == [type |-> type, items |-> items]

\* list(cluster): the elements of a set in slot order, the items of a list,
\* the column names of a data frame
ListOf(obj) == IF obj.type = "set" THEN PyList(obj.items) ELSE obj.items

\* frame.loc[labels] and frame.iloc[labels] raise unless every label is a
\* record index of the frame: a set is unhashable, a column name is no row
Selects(frame, obj) ==
    /\ obj.type = "set"
    /\ SetOf(obj.items) \subseteq SetOf(Index(frame))

\* clustered_df.loc[list(cluster)]
Loc(frame, labels) == [n \in 1..Len(labels) |-> Row(frame, labels[n])]

TextCols(row) == DOMAIN row \ {"cluster_id"}

\* pd.isnull(v) or v == ''
IsEmptyCell(v) == v = NaN \/ v = Empty

\* notnull().sum(axis=1): the cells of the row that are not NaN
NotNullCount(row) ==
    Cardinality({c \in TextCols(row) : row[c] # NaN})
    + (IF "cluster_id" \in DOMAIN row THEN 1 ELSE 0)

\* idxmax(): the first row with the highest count
IdxMax(rows) ==
    CHOOSE n \in 1..Len(rows) :
        /\ \A m \in 1..Len(rows) : NotNullCount(rows[m]) <= NotNullCount(rows[n])
        /\ \A m \in 1..(n - 1) : NotNullCount(rows[m]) < NotNullCount(rows[n])

BaseRecord(rows) == rows[IdxMax(rows)]

\* rows[col].dropna()
DropNa(rows, col) ==
    SelectSeq([n \in 1..Len(rows) |-> rows[n][col]], LAMBDA v : v # NaN)

\* mutant: the leads' values replace the base record's own
BackfillOverwrites(base, leads) ==
    [c \in DOMAIN base |->
        IF c = "cluster_id" THEN base[c]
        ELSE IF DropNa(leads, c) # <<>> THEN DropNa(leads, c)[1]
             ELSE base[c]]

\* fill the empty cells of the base record from the leads
Backfill(base, leads) ==
    [c \in DOMAIN base |->
        IF c = "cluster_id" THEN base[c]
        ELSE IF IsEmptyCell(base[c]) /\ DropNa(leads, c) # <<>>
             THEN DropNa(leads, c)[1]
             ELSE base[c]]

Count(vals, v) == Cardinality({n \in 1..Len(vals) : vals[n] = v})

\* Counter(vals).most_common(1)[0][0]: the most frequent value, the first
\* one counted on a tie
MostCommon(vals) ==
    vals[CHOOSE n \in 1..Len(vals) :
            /\ \A m \in 1..Len(vals) : Count(vals, vals[m]) <= Count(vals, vals[n])
            /\ \A m \in 1..(n - 1) : Count(vals, vals[m]) < Count(vals, vals[n])]

\* override first_name and last_name with the mode over the given rows
OverrideNames(rec, rows) ==
    [c \in DOMAIN rec |->
        IF c \in {"first_name", "last_name"} /\ DropNa(rows, c) # <<>>
        THEN MostCommon(DropNa(rows, c))
        ELSE rec[c]]

Contacts(rows) == SelectSeq(rows, LAMBDA r : Lower(r.source_type) = S_contact)

Leads(rows) == SelectSeq(rows, LAMBDA r : Lower(r.source_type) = S_lead)

\* idxmax() of an empty Series raises
MasterRaises(cluster_records) ==
    Contacts(cluster_records) = <<>> /\ Leads(cluster_records) = <<>>

\* the body of the loop of choose_master_people
MasterPerson(cluster_records) ==
    LET contacts == Contacts(cluster_records)
        leads == Leads(cluster_records)
    IN  IF contacts # <<>>
        THEN With(OverrideNames(Backfill(BaseRecord(contacts), leads), cluster_records),
                  "source_type", S_contact)
        ELSE With(OverrideNames(BaseRecord(leads), leads), "source_type", S_lead)

choose_master_people(clustered_df, cluster_objs) ==
    IF \E n \in 1..Len(cluster_objs) :
          \/ ~Selects(clustered_df, cluster_objs[n])
          \/ MasterRaises(Loc(clustered_df, ListOf(cluster_objs[n])))
    THEN [raised |-> TRUE, rows |-> <<>>]
    ELSE [raised |-> FALSE,
          rows |-> [n \in 1..Len(cluster_objs) |->
                      MasterPerson(Loc(clustered_df, ListOf(cluster_objs[n])))]]

\* master = df.iloc[list(cluster)].iloc[0]
choose_master_accounts(frame, cluster_objs) ==
    IF \E n \in 1..Len(cluster_objs) : ~Selects(frame, cluster_objs[n])
    THEN [raised |-> TRUE, rows |-> <<>>]
    ELSE [raised |-> FALSE,
          rows |-> [n \in 1..Len(cluster_objs) |->
                      Loc(frame, ListOf(cluster_objs[n]))[1]]]

\* the dashboard unpacks the pair returned by the clustering
UnpackedClusters == [n \in 1..Len(clusters[1]) |-> PySet(clusters[1][n])]

\* app.py keeps the pair itself: its items are the list of sets and the frame
PairAsClusters ==
    <<PyObject("list", clusters[1]), PyObject("DataFrame", <<"columns">>)>>

Merged(r) ==
    /\ masters' = r.rows
    /\ pc' = IF r.raised THEN "raised" ELSE "merged"
    /\ UNCHANGED <<df, cluster_map, next_cid, remaining, blocks, G, clusters>>
    /\ Untouched

\* streamlit_app.py: people_clusters, clustered_df = cluster_people(...)
dashboard_merge_people ==
    /\ pc = "clustered" /\ kind = "people" /\ pipeline = "dashboard"
    /\ Merged(choose_master_people(clusters[2], UnpackedClusters))

\* streamlit_app.py: account_clusters, accounts_clustered_df = cluster_accounts(...)
dashboard_merge_accounts ==
    /\ pc = "clustered" /\ kind = "accounts" /\ pipeline = "dashboard"
    /\ Merged(choose_master_accounts(clusters[2], UnpackedClusters))

\* app.py: clusters = cluster_people(people_norm)
main_merge_people ==
    /\ pc = "clustered" /\ kind = "people" /\ pipeline = "cli"
    /\ Merged(choose_master_people(df, PairAsClusters))

\* app.py: a_clusters = cluster_accounts(accounts_norm)
main_merge_accounts ==
    /\ pc = "clustered" /\ kind = "accounts" /\ pipeline = "cli"
    /\ Merged(choose_master_accounts(df, PairAsClusters))

Next ==
    \/ NextCluster
    \/ dashboard_merge_people \/ dashboard_merge_accounts
    \/ main_merge_people \/ main_merge_accounts

\* the rows of the survivorship datasets
PeopleMergeVocab ==
    { PersonRow(S_Ann, S_lee, NaN, S_oops, NaN),
      PersonRow(S_ann, S_lee, NaN, S_555, NaN),
      PersonRow(S_Ann, S_lee, NaN, S_556, S_corp),
      PersonRow(S_ann, S_lee, S_b_at_x, S_555, S_corp),
      PersonRow(S_Ann, S_lee, S_b_at_x, NaN, NaN) }

AccountMergeVocab ==
    { AccountRow(S_acme, NaN),
      AccountRow(S_Acme, NaN),
      AccountRow(S_acme, S_b_co),
      AccountRow(S_ac_me, S_www_b_co),
      AccountRow(S_a_c, NaN) }

Pipelines == {"cli", "dashboard"}

InitMerge ==
    \E p \in Pipelines :
        \/ \E ls \in SeqsUpTo(PeopleMergeVocab, 0, MaxMergeRecords),
              cs \in SeqsUpTo(PeopleMergeVocab, 0, MaxMergeRecords) :
              /\ Len(ls) + Len(cs) \in 1..MaxMergeRecords
              /\ Loaded(p, "people",
                        [NoTables EXCEPT !.leads = Tagged(ls, SourceTag(p, "lead")),
                                         !.contacts = Tagged(cs, SourceTag(p, "contact"))])
        \/ \E rows \in SeqsUpTo(AccountMergeVocab, 1, MaxMergeRecords) :
              Loaded(p, "accounts",
                     [NoTables EXCEPT !.accounts = Tagged(rows, SourceTag(p, "account"))])

SpecMerge == InitMerge /\ [][Next]_vars

\* the rows of the long datasets
PeopleWideVocab ==
    { PersonRow(S_ann, S_lee, S_b_at_x, NaN, NaN),
      PersonRow(S_a_l, S_lee, NaN, NaN, NaN) }

AccountWideVocab ==
    { AccountRow(S_acme, S_b_co),
      AccountRow(S_ac_me, S_www_b_co),
      AccountRow(S_a_c, NaN) }

InitWide ==
    \E p \in Pipelines :
        \/ \E rows \in [1..WideRecords -> PeopleWideVocab] :
              Loaded(p, "people",
                     [NoTables EXCEPT !.leads = Tagged(rows, SourceTag(p, "lead"))])
        \/ \E rows \in [1..WideRecords -> AccountWideVocab] :
              Loaded(p, "accounts",
                     [NoTables EXCEPT !.accounts = Tagged(rows, SourceTag(p, "account"))])

SpecWide == InitWide /\ [][Next]_vars

\* ----------------------------------------------- the survivorship claims
MergedPeople == pc = "merged" /\ kind = "people"

\* the records of the n-th cluster, in the order the resolver reads them
ClusterRecords(n) == Loc(clusters[2], PyList(clusters[1][n]))

IsContact(r) == Lower(r.source_type) = S_contact

IsLead(r) == Lower(r.source_type) = S_lead

HasContact(n) == \E m \in 1..Len(ClusterRecords(n)) : IsContact(ClusterRecords(n)[m])

ContactBase(n) == BaseRecord(SelectSeq(ClusterRecords(n), IsContact))

LeadRows(n) == SelectSeq(ClusterRecords(n), IsLead)

NameCols == {"first_name", "last_name"}

\* the values a field has among the rows, in row order
Column(rows, c) == [m \in 1..Len(rows) |-> rows[m][c]]

\* the first value of the sequence that is neither NaN nor ""
FirstNonEmpty(vals) ==
    LET kept == SelectSeq(vals, LAMBDA v : ~IsEmptyCell(v))
    IN  IF kept = <<>> THEN Empty ELSE kept[1]

\* C6, as amended: the master of a people cluster with a contact has
\* source_type "contact", its first_name and last_name are the most frequent
\* value among all members (the first one met on a tie), and every other
\* non-empty field of the base contact is kept: a field differs from the base
\* contact's only when that one is empty and a lead holds the new value.
ContactMasterKeeps ==
    MergedPeople =>
        \A n \in 1..Len(masters) :
            HasContact(n) =>
                /\ masters[n].source_type = S_contact
                /\ masters[n].cluster_id = ContactBase(n).cluster_id
                /\ \A c \in NameCols :
                      masters[n][c] = MostCommon(Column(ClusterRecords(n), c))
                /\ \A c \in TextCols(masters[n]) \ (NameCols \cup {"source_type"}) :
                      /\ ~IsEmptyCell(ContactBase(n)[c]) => masters[n][c] = ContactBase(n)[c]
                      /\ masters[n][c] # ContactBase(n)[c] =>
                            \E m \in 1..Len(LeadRows(n)) : LeadRows(n)[m][c] = masters[n][c]

ContactMasterWitness ==
    /\ MergedPeople
    /\ \E n \in 1..Len(masters) :
          /\ HasContact(n)
          /\ ~IsEmptyCell(ContactBase(n).phone)
          /\ \E m \in 1..Len(LeadRows(n)) :
                /\ ~IsEmptyCell(LeadRows(n)[m].phone)
                /\ LeadRows(n)[m].phone # ContactBase(n).phone
          /\ masters[n].phone = ContactBase(n).phone
          /\ IsEmptyCell(ContactBase(n).company)
          /\ ~IsEmptyCell(masters[n].company)
          /\ masters[n].first_name # ContactBase(n).first_name

\* C6 as stated: every non-empty field of the base contact, first_name and
\* last_name included, is unchanged in the master.
ContactMasterKeepsAll ==
    MergedPeople =>
        \A n \in 1..Len(masters) :
            HasContact(n) =>
                /\ masters[n].source_type = S_contact
                /\ \A c \in TextCols(masters[n]) \ {"source_type"} :
                      ~IsEmptyCell(ContactBase(n)[c]) => masters[n][c] = ContactBase(n)[c]

\* C7: every field that is empty (NaN or "") on the base contact holds, in
\* the master, the first non-empty value of the field among the cluster's
\* leads in lead order, and stays empty only when every lead has it empty.
BackfillFirstNonEmpty ==
    MergedPeople =>
        \A n \in 1..Len(masters) :
            HasContact(n) =>
                \A c \in TextCols(masters[n]) :
                    IsEmptyCell(ContactBase(n)[c]) =>
                        IF FirstNonEmpty(Column(LeadRows(n), c)) = Empty
                        THEN IsEmptyCell(masters[n][c])
                        ELSE masters[n][c] = FirstNonEmpty(Column(LeadRows(n), c))

\* the fields of a row that are neither NaN nor ""
NonEmptyCount(row) == Cardinality({c \in TextCols(row) : ~IsEmptyCell(row[c])})

MostComplete(rows) ==
    rows[CHOOSE n \in 1..Len(rows) :
            /\ \A m \in 1..Len(rows) : NonEmptyCount(rows[m]) <= NonEmptyCount(rows[n])
            /\ \A m \in 1..(n - 1) : NonEmptyCount(rows[m]) < NonEmptyCount(rows[n])]

\* C8: the base record of a people cluster is the contact (the lead, when
\* there is no contact) with the most non-empty fields, "" counting as
\* empty, and the first such one on a tie.
BaseIsMostComplete ==
    MergedPeople =>
        \A n \in 1..Len(masters) :
            LET cands == IF HasContact(n) THEN SelectSeq(ClusterRecords(n), IsContact)
                         ELSE LeadRows(n)
            IN  BaseRecord(cands) = MostComplete(cands)

\* C9: the master of an account cluster is, field for field, the member
\* with the smallest record index.
AccountMasterIsFirst ==
    (pc = "merged" /\ kind = "accounts") =>
        \A n \in 1..Len(masters) : masters[n] = Row(clusters[2], Min(Members(n)))

\* C10: the resolver returns without raising, with one master per cluster,
\* in cluster-id order, each carrying its cluster's id, in the command-line
\* pipeline as in the dashboard.
OneMasterPerCluster ==
    pc \in {"merged", "raised"} =>
        /\ pc = "merged"
        /\ Len(masters) = Len(clusters[1])
        /\ \A n \in 1..Len(masters) :
              /\ masters[n].cluster_id = n - 1
              /\ \A i \in Members(n) : DictGet(cluster_map, i) = n - 1

\* ---------------------------------------------- the cluster-id claims
\* the cluster id of a record, as written to the returned frame
ClusterIdOf(i) == Row(clusters[2], i).cluster_id

HasExactKey(i) == ExactKeyOf(i) # Empty

\* the first record of the dataset that holds the exact key of record i
FirstWithKey(i) == Min({j \in IndexSet : ExactKeyOf(j) = ExactKeyOf(i)})

\* an end of a fuzzy edge, that is a member of a component of size >= 2
InFuzzyComponent(i) == \E e \in G.edges : i \in e

IsSingleton(i) == ~HasExactKey(i) /\ ~InFuzzyComponent(i)

ExactIdsByFirstAppearance ==
    \A i, j \in IndexSet :
        (HasExactKey(i) /\ HasExactKey(j) /\ FirstWithKey(i) < FirstWithKey(j)) =>
            ClusterIdOf(i) < ClusterIdOf(j)

ExactIdsFirst ==
    \A i, j \in IndexSet :
        (HasExactKey(i) /\ ~HasExactKey(j)) => ClusterIdOf(i) < ClusterIdOf(j)

SingletonIdsLast ==
    \A i, j \in IndexSet :
        (InFuzzyComponent(i) /\ IsSingleton(j)) => ClusterIdOf(i) < ClusterIdOf(j)

\* C11: cluster ids come in three consecutive ranges: the exact-match
\* clusters, numbered in the order in which their key first appears in the
\* dataset, then the fuzzy components of size >= 2, then the singletons, so
\* that every singleton has a larger id than every such component.
ClusterIdRanges ==
    Clustered =>
        /\ {ClusterIdOf(i) : i \in IndexSet} = 0..(Len(clusters[1]) - 1)
        /\ ExactIdsByFirstAppearance
        /\ ExactIdsFirst
        /\ SingletonIdsLast

\* ------------------------------------------------- the blocking claims
\* the records of the n-th block
BlockMembers(n) == SetOf(blocks[n].idxs)

\* the blocks that hold record i
BlocksOf(i) == {n \in 1..Len(blocks) : i \in BlockMembers(n)}

\* the two records hold one and the same non-empty exact key
SharedExactKey(i, j) == HasExactKey(i) /\ ExactKeyOf(i) = ExactKeyOf(j)

\* the two records are judged a match by their names
JudgedMatch(i, j) ==
    IF kind = "people" THEN TwiceAverage(i, j) >= 176 ELSE AccountScore(i, j) >= 90

\* C12: every record left after the exact phase is in exactly one block,
\* the one of its key (empty key included), and no other record is in a
\* block; every pair of a block that can be scored and is judged a match has
\* its edge; every fuzzy edge joins two records of one block; so two records
\* with different block keys and no shared non-empty exact key are never in
\* the same cluster.
BlockingConfines ==
    Clustered =>
        /\ \A i \in IndexSet :
              IF HasExactKey(i) THEN BlocksOf(i) = {}
              ELSE /\ Cardinality(BlocksOf(i)) = 1
                   /\ \A n \in BlocksOf(i) : blocks[n].key = BlockKeyOf(i)
        /\ \A n \in 1..Len(blocks) :
              /\ Len(blocks[n].idxs) = Cardinality(BlockMembers(n))
              /\ \A i, j \in BlockMembers(n) :
                    (i # j /\ ~ShortRecord(i) /\ ~ShortRecord(j) /\ JudgedMatch(i, j)) =>
                        {i, j} \in G.edges
        /\ \A e \in G.edges : \E n \in 1..Len(blocks) : e \subseteq BlockMembers(n)
        /\ \A i, j \in IndexSet :
              (BlockKeyOf(i) # BlockKeyOf(j) /\ ~SharedExactKey(i, j)) => ~SameCluster(i, j)

BlockingWitness ==
    /\ Clustered
    /\ \E i, j, k \in IndexSet :
          /\ ~HasExactKey(i) /\ ~HasExactKey(j) /\ ~HasExactKey(k)
          /\ ~ShortRecord(i) /\ ~ShortRecord(j)
          /\ JudgedMatch(i, j)
          /\ BlockKeyOf(i) # BlockKeyOf(j)
          /\ ~SameCluster(i, j)
          /\ BlockKeyOf(k) = Empty
          /\ \E n \in 1..Len(blocks) : blocks[n].key = Empty /\ k \in BlockMembers(n)

\* --------------------------------------------------- the chain claims
\* two records of one block, both left by the exact phase and long enough
\* to be scored, that are judged a match
MatchEdge(i, j) == Comparable(i, j) /\ JudgedMatch(i, j)

\* the records reached from those of S over judged-match edges
RECURSIVE Reached(_)
Reached(S) ==
    LET T == S \cup {j \in IndexSet : \E i \in S : MatchEdge(i, j)}
    IN  IF T = S THEN S ELSE Reached(T)

ClusterOf(i) == {j \in IndexSet : SameCluster(i, j)}

\* C13: fuzzy clustering is transitive: when A-B and B-C are judged matches
\* and A-C is not, the three records are in one cluster; the cluster of a
\* record left by the exact phase is exactly its connected component in the
\* graph of judged-match edges.
ChainsMerge ==
    Clustered =>
        /\ \A a, b, c \in IndexSet :
              (MatchEdge(a, b) /\ MatchEdge(b, c) /\ a # c /\ ~JudgedMatch(a, c)) =>
                  \E n \in 1..Len(clusters[1]) : {a, b, c} \subseteq Members(n)
        /\ \A i \in IndexSet : ~HasExactKey(i) => ClusterOf(i) = Reached({i})

ChainWitness ==
    /\ Clustered
    /\ \E a, b, c \in IndexSet :
          /\ a < b /\ a < c
          /\ MatchEdge(a, b) /\ MatchEdge(b, c)
          /\ a # c /\ ~JudgedMatch(a, c)
          /\ {a, c} \notin G.edges
          /\ ClusterOf(a) = {a, b, c}

\* ------------------------------------------------ the exact-key claims
\* the records that hold the exact key of record i
KeyGroup(i) == {j \in IndexSet : ExactKeyOf(j) = ExactKeyOf(i)}

\* C14: a record with a non-empty exact key is in no block, is no node of
\* the graph and no end of a fuzzy edge, even when it is alone with its key;
\* its cluster is exactly the set of records with that key, so it is never
\* in the cluster of a record whose key is empty or different.
KeyedStaysOut ==
    Clustered =>
        \A i \in IndexSet :
            HasExactKey(i) =>
                /\ i \notin SetOf(remaining)
                /\ BlocksOf(i) = {}
                /\ i \notin SetOf(G.nodes)
                /\ \A e \in G.edges : i \notin e
                /\ ClusterOf(i) = KeyGroup(i)
                /\ \A j \in IndexSet :
                      ExactKeyOf(j) # ExactKeyOf(i) => ~SameCluster(i, j)

KeyedWitness ==
    /\ Clustered
    /\ \E i, j \in IndexSet :
          /\ HasExactKey(i) /\ KeyGroup(i) = {i}
          /\ ~HasExactKey(j)
          /\ BlockKeyOf(i) = BlockKeyOf(j)
          /\ ~ShortRecord(i) /\ ~ShortRecord(j)
          /\ JudgedMatch(i, j)
          /\ ClusterOf(i) = {i}
          /\ j \in SetOf(G.nodes)

====
